---------------------------- MODULE Spec2Model ----------------------------
(***************************************************************************)
(* Model of the electronic-stamp application:                              *)
(*   src/src/utils/pdf.ts                 page rasterizer (pdfPageToImage), *)
(*                                        stamp compositor (addStampToPDF,  *)
(*                                        addStampToAllPDFPages), page      *)
(*                                        image request (getPageImageByFile)*)
(*                                        and the editing-surface hook      *)
(*                                        (useStampAdder)                   *)
(*   src/src/components/PDFCanvas/styles.ts   stamp library UI              *)
(*                                        (StampUploader)                   *)
(*                                                                         *)
(* Numbers of the coordinate transform are exact rationals <<n, d>> in     *)
(* lowest terms with d > 0 (the code uses IEEE doubles; the model keeps    *)
(* the arithmetic the code writes and leaves rounding out).                *)
(***************************************************************************)
EXTENDS Integers, Sequences, FiniteSets, TLC

(***************************************************************************)
(* Bounds of the model.                                                    *)
(***************************************************************************)
\* documents have 1..MaxPages pages
MaxPages == 3
\* placement coordinates are PosStep * k for k in -1..MaxPosK
MaxPosK == 1
PosStep == 40
\* uuidv4 hands out at most MaxIds ids; at most MaxReaders file reads are in flight
MaxIds == 6
MaxReaders == 2
\* addStampToCanvas and focusActiveStamp are called at most MaxCalls times in
\* all (a focusActiveStamp that places counts twice): enough for a placement
\* that replaces an earlier one, for two overlapping placements, and for a
\* focusActiveStamp next to a pending placement
MaxCalls == 3

(***************************************************************************)
(* Rational arithmetic.                                                    *)
(***************************************************************************)
Abs(i) == IF i < 0 THEN -i ELSE i

RECURSIVE GCD(_, _)
GCD(a, b) == IF b = 0 THEN a ELSE GCD(b, a % b)

Norm(n, d) ==
    LET g == GCD(Abs(n), Abs(d))
        s == IF d < 0 THEN -1 ELSE 1
    IN  << (s * n) \div g, (s * d) \div g >>

RInt(i) == << i, 1 >>
RMul(a, b) == Norm(a[1] * b[1], a[2] * b[2])
RDiv(a, b) == Norm(a[1] * b[2], a[2] * b[1])
RSub(a, b) ==
    LET l == (a[2] \div GCD(a[2], b[2])) * b[2]
    IN  Norm(a[1] * (l \div a[2]) - b[1] * (l \div b[2]), l)
RNeg(a) == << -a[1], a[2] >>
RIsNeg(a) == a[1] < 0
RLeq(a, b) == ~RIsNeg(RSub(b, a))
RMax(a, b) == IF RLeq(a, b) THEN b ELSE a
RMin(a, b) == IF RLeq(a, b) THEN a ELSE b

(***************************************************************************)
(* Canvas constants, pdf.ts:379-380.                                       *)
(* FABRIC_CANVAS_HEIGHT = parseFloat((500 * Math.sqrt(2)).toFixed(2))      *)
(*                      = 707.11                                           *)
(***************************************************************************)
FABRIC_CANVAS_WIDTH == RInt(500)
FABRIC_CANVAS_HEIGHT == Norm(70711, 100)


VARIABLES
    comp,       \* the running addStampToPDF / addStampToAllPDFPages call
    rast,       \* the running pdfPageToImage call
    pimg,       \* the running getPageImageByFile call
    pcount,     \* the running getPdfPageCount call
    urls        \* object URLs: next id, live set, revocations in order

pdfVars == << comp, rast, pimg, pcount, urls >>

VARIABLES
    stamps,         \* store: the stamp library, in upload order
    selectedStamp,  \* store: the selected stamp, or NoStamp
    readers,        \* FileReader reads started and not yet completed
    nextId          \* ids handed out by uuidv4 so far

libVars == << stamps, selectedStamp, readers, nextId >>

VARIABLES
    canvas,         \* the fabric canvas: its objects in order, its active object
    stampObject,    \* store: the placed object, or NoObject
    loads,          \* Image loads started by addStampToCanvas and not yet completed
    calls           \* addStampToCanvas / focusActiveStamp calls and what they resolved to

surfVars == << canvas, stampObject, loads, calls >>

vars == << pdfVars, libVars, surfVars >>

(***************************************************************************)
(* Inputs of the pdf.ts operations.                                        *)
(***************************************************************************)
\* page geometries (PDF points): the editing surface itself, A4, Letter
Geoms ==
    << [width |-> FABRIC_CANVAS_WIDTH, height |-> FABRIC_CANVAS_HEIGHT],
       [width |-> RInt(595), height |-> RInt(842)],
       [width |-> RInt(612), height |-> RInt(792)] >>

FileNames == << "a.pdf", "b.pdf", "c.pdf" >>

\* a File holding a PDF: n pages whose geometries cycle through Geoms from o
GoodFile(n, o) ==
    [ name |-> FileNames[o + 1],
      wellFormed |-> TRUE,
      pages |-> [i \in 1..n |-> Geoms[((o + i - 1) % 3) + 1]],
      draws |-> << >> ]

\* a File whose bytes are not a PDF
BadFile == [name |-> "bad.pdf", wellFormed |-> FALSE, pages |-> << >>, draws |-> << >>]

Files == { GoodFile(n, o) : n \in 1..MaxPages, o \in 0..2 } \cup { BadFile }

PageNumbers == -1 .. (MaxPages + 1)

\* stampImage strings, by what the code asks of them:
\*   dataUrl   stampImage.startsWith('data:')
\*   base64    window.atob accepts the part after the first comma
\*   png       stampImage.includes('image/png')
\*   pngBytes  the decoded bytes are a PNG that embedPng accepts
StampImage(d, b, p, e) == [dataUrl |-> d, base64 |-> b, png |-> p, pngBytes |-> e]

PngDataUrl == StampImage(TRUE, TRUE, TRUE, TRUE)
StampImages ==
    { PngDataUrl,
      StampImage(FALSE, FALSE, FALSE, FALSE),   \* "https://host/stamp.gif"
      StampImage(FALSE, FALSE, TRUE, FALSE),    \* "/image/png/stamp"
      StampImage(TRUE, TRUE, FALSE, FALSE),     \* "data:image/jpeg;base64,..."
      StampImage(TRUE, FALSE, TRUE, FALSE),     \* "data:image/png;base64,%%%"
      StampImage(TRUE, TRUE, TRUE, FALSE) }     \* "data:image/png;base64,<not a PNG>"

Coords == { PosStep * k : k \in -1..MaxPosK }
Sizes == { << 100, 100 >>, << 60, 150 >> }
\* the optional position argument; defined = FALSE stands for undefined
Positions ==
    { [defined |-> TRUE, x |-> x, y |-> y, width |-> s[1], height |-> s[2]] :
        x \in Coords, y \in Coords, s \in Sizes }
NoPosition == [defined |-> FALSE, x |-> 0, y |-> 0, width |-> 0, height |-> 0]
OptPositions == Positions \cup { NoPosition }

(***************************************************************************)
(* Stamp compositor: addStampToPDF (pdf.ts:180-264) and                    *)
(* addStampToAllPDFPages (pdf.ts:292-376).                                 *)
(***************************************************************************)
\* the message of the one Error both functions throw from their catch block
\* (pdf.ts:262 and 374, the same Korean sentence: "an error occurred while
\* adding the stamp to the PDF")
StampApplyFailedMessage == "error while adding the stamp to the PDF"

\* what the catch block was handed (and logs with console.error)
Cause(kind, lo, hi) == [kind |-> kind, lo |-> lo, hi |-> hi]
NoCause == Cause("none", 0, 0)

NoPdfDoc == [pages |-> << >>, draws |-> << >>]
NoResult == [kind |-> "none", message |-> "", doc |-> NoPdfDoc]

IdleComp ==
    [ pc |-> "idle", fn |-> "none", file |-> BadFile, stampImage |-> PngDataUrl,
      position |-> NoPosition, pageNumber |-> 0,
      pdfDoc |-> NoPdfDoc, embeds |-> 0, trace |-> << >>,
      logged |-> NoCause, result |-> NoResult ]

\* the call, before its first statement
NewComp(fn, file, stampImage, position, pageNumber) ==
    [ IdleComp EXCEPT !.pc = "load", !.fn = fn, !.file = file,
                      !.stampImage = stampImage, !.position = position,
                      !.pageNumber = pageNumber ]

\* mutant of CompThrow: the catch block rethrows what it caught
CompThrow_rethrow(c, cause) ==
    [ c EXCEPT !.pc = "threw", !.logged = cause,
               !.result = [kind |-> "error", message |-> cause.kind, doc |-> NoPdfDoc] ]

\* catch (error) { console.error(...); throw new Error(<fixed message>) }
CompThrow(c, cause) ==
    [ c EXCEPT !.pc = "threw", !.logged = cause,
               !.result = [kind |-> "error", message |-> StampApplyFailedMessage,
                           doc |-> NoPdfDoc] ]

\* mutant of StampRect_addStampToPDF: stampY clamped into the page
StampRect_addStampToPDF_clampY(position, width, height) ==
    IF position.defined
    THEN LET scaleX == RDiv(width, FABRIC_CANVAS_WIDTH)
             scaleY == RDiv(height, FABRIC_CANVAS_HEIGHT)
             stampWidth == RMul(RInt(position.width), scaleX)
             stampHeight == RMul(RInt(position.height), scaleY)
             stampX == RMul(RInt(position.x), scaleX)
             stampY == RSub(RSub(height, RMul(RInt(position.y), scaleY)), stampHeight)
         IN  [ x |-> stampX,
               y |-> RMax(RInt(0), RMin(stampY, RSub(height, stampHeight))),
               width |-> stampWidth, height |-> stampHeight ]
    ELSE [ x |-> RSub(RDiv(width, RInt(2)), RInt(50)),
           y |-> RSub(RDiv(height, RInt(2)), RInt(50)),
           width |-> RInt(100), height |-> RInt(100) ]

\* if (position) {...} else {...} of addStampToPDF, for a page of size width x height
StampRect_addStampToPDF(position, width, height) ==
    IF position.defined
    THEN LET scaleX == RDiv(width, FABRIC_CANVAS_WIDTH)
             scaleY == RDiv(height, FABRIC_CANVAS_HEIGHT)
             stampWidth == RMul(RInt(position.width), scaleX)
             stampHeight == RMul(RInt(position.height), scaleY)
             stampX == RMul(RInt(position.x), scaleX)
             stampY == RSub(RSub(height, RMul(RInt(position.y), scaleY)), stampHeight)
         IN  [x |-> stampX, y |-> stampY, width |-> stampWidth, height |-> stampHeight]
    ELSE LET stampWidth == RInt(100)
             stampHeight == RInt(100)
         IN  [ x |-> RSub(RDiv(width, RInt(2)), RDiv(stampWidth, RInt(2))),
               y |-> RSub(RDiv(height, RInt(2)), RDiv(stampHeight, RInt(2))),
               width |-> stampWidth, height |-> stampHeight ]

\* mutant of StampRect_addStampToAllPDFPages: stampX = Math.max(0, ...)
StampRect_addStampToAllPDFPages_clampX(position, width, height) ==
    IF position.defined
    THEN LET scaleX == RDiv(width, FABRIC_CANVAS_WIDTH)
             scaleY == RDiv(height, FABRIC_CANVAS_HEIGHT)
             stampWidth == RMul(RInt(position.width), scaleX)
             stampHeight == RMul(RInt(position.height), scaleY)
             stampX == RMax(RInt(0), RMul(RInt(position.x), scaleX))
             stampY == RSub(RSub(height, RMul(RInt(position.y), scaleY)), stampHeight)
         IN  [x |-> stampX, y |-> stampY, width |-> stampWidth, height |-> stampHeight]
    ELSE [ x |-> RSub(RDiv(width, RInt(2)), RInt(50)),
           y |-> RSub(RDiv(height, RInt(2)), RInt(50)),
           width |-> RInt(100), height |-> RInt(100) ]

\* mutant of StampRect_addStampToAllPDFPages: the default 100 x 100 is scaled
\* from surface units to page units like a supplied size
StampRect_addStampToAllPDFPages_defaultScaled(position, width, height) ==
    LET scaleX == RDiv(width, FABRIC_CANVAS_WIDTH)
        scaleY == RDiv(height, FABRIC_CANVAS_HEIGHT)
        stampWidth == RMul(RInt(IF position.defined THEN position.width ELSE 100), scaleX)
        stampHeight == RMul(RInt(IF position.defined THEN position.height ELSE 100), scaleY)
    IN  IF position.defined
        THEN [ x |-> RMul(RInt(position.x), scaleX),
               y |-> RSub(RSub(height, RMul(RInt(position.y), scaleY)), stampHeight),
               width |-> stampWidth, height |-> stampHeight ]
        ELSE [ x |-> RSub(RDiv(width, RInt(2)), RDiv(stampWidth, RInt(2))),
               y |-> RSub(RDiv(height, RInt(2)), RDiv(stampHeight, RInt(2))),
               width |-> stampWidth, height |-> stampHeight ]

\* the same block of addStampToAllPDFPages
StampRect_addStampToAllPDFPages(position, width, height) ==
    IF position.defined
    THEN LET scaleX == RDiv(width, FABRIC_CANVAS_WIDTH)
             scaleY == RDiv(height, FABRIC_CANVAS_HEIGHT)
             stampWidth == RMul(RInt(position.width), scaleX)
             stampHeight == RMul(RInt(position.height), scaleY)
             stampX == RMul(RInt(position.x), scaleX)
             stampY == RSub(RSub(height, RMul(RInt(position.y), scaleY)), stampHeight)
         IN  [x |-> stampX, y |-> stampY, width |-> stampWidth, height |-> stampHeight]
    ELSE LET stampWidth == RInt(100)
             stampHeight == RInt(100)
         IN  [ x |-> RSub(RDiv(width, RInt(2)), RDiv(stampWidth, RInt(2))),
               y |-> RSub(RDiv(height, RInt(2)), RDiv(stampHeight, RInt(2))),
               width |-> stampWidth, height |-> stampHeight ]

\* page.drawImage(stampPng, rect) on page i (1-based) of the document
Draw(i, rect) == [page |-> i, rect |-> rect]

\* await pdfFile.arrayBuffer(); await PDFDocument.load(pdfBytes)
CompLoad(c) ==
    IF c.file.wellFormed
    THEN [ c EXCEPT !.pc = "dataurl",
                    !.pdfDoc = [pages |-> c.file.pages, draws |-> c.file.draws],
                    !.trace = Append(@, "load") ]
    ELSE CompThrow(c, Cause("LoadFailed", 0, 0))

\* if (stampImage.startsWith('data:')) imageData = dataURLToBytes(stampImage)
\* else throw
CompDataUrl(c) ==
    IF c.stampImage.dataUrl
    THEN IF c.stampImage.base64
         THEN [c EXCEPT !.pc = "embed", !.trace = Append(@, "decode")]
         ELSE CompThrow(c, Cause("DecodeFailed", 0, 0))
    ELSE CompThrow(c, Cause("NotDataUrl", 0, 0))

\* mutant of CompEmbed: any decodable image is embedded, whatever its format
CompEmbed_anyFormat(c) ==
    [ c EXCEPT !.pc = IF c.fn = "addStampToPDF" THEN "pagecheck" ELSE "draw",
               !.embeds = @ + 1, !.trace = Append(@, "embed") ]

\* if (stampImage.includes('image/png')) stampPng = await pdfDoc.embedPng(imageData)
\* else throw
CompEmbed(c) ==
    IF c.stampImage.png
    THEN IF c.stampImage.pngBytes
         THEN [ c EXCEPT !.pc = IF c.fn = "addStampToPDF" THEN "pagecheck" ELSE "draw",
                         !.embeds = @ + 1, !.trace = Append(@, "embed") ]
         ELSE CompThrow(c, Cause("EmbedFailed", 0, 0))
    ELSE CompThrow(c, Cause("NotPng", 0, 0))

\* mutant of CompPageCheck: pageNumber >= pages.length is refused
CompPageCheck_offByOne(c) ==
    LET pages == c.pdfDoc.pages IN
    IF c.pageNumber < 1 \/ c.pageNumber >= Len(pages)
    THEN CompThrow(c, Cause("InvalidPage", 1, Len(pages)))
    ELSE [c EXCEPT !.pc = "draw", !.trace = Append(@, "pagecheck")]

\* mutant of CompPageCheck: the page number is checked after the first page
\* has been drawn on
CompPageCheck_afterDraw(c) ==
    LET pages == c.pdfDoc.pages
        drawn == [c EXCEPT !.trace = Append(@, "draw")]
    IN  IF c.pageNumber < 1 \/ c.pageNumber > Len(pages)
        THEN CompThrow(drawn, Cause("InvalidPage", 1, Len(pages)))
        ELSE [c EXCEPT !.pc = "draw", !.trace = Append(@, "pagecheck")]

\* addStampToPDF: if (pageNumber < 1 || pageNumber > pages.length) throw
CompPageCheck(c) ==
    LET pages == c.pdfDoc.pages IN
    IF c.pageNumber < 1 \/ c.pageNumber > Len(pages)
    THEN CompThrow(c, Cause("InvalidPage", 1, Len(pages)))
    ELSE [c EXCEPT !.pc = "draw", !.trace = Append(@, "pagecheck")]

\* addStampToPDF: page = pages[pageNumber - 1]; getSize; drawImage
CompDrawOne(c) ==
    LET page == c.pdfDoc.pages[c.pageNumber]
        rect == StampRect_addStampToPDF(c.position, page.width, page.height)
    IN  [ c EXCEPT !.pc = "save",
                   !.pdfDoc.draws = Append(@, Draw(c.pageNumber, rect)),
                   !.trace = Append(@, "draw") ]

\* mutant of CompDrawAll: every page gets the rectangle of the first page
CompDrawAll_firstPageSize(c) ==
    LET pages == c.pdfDoc.pages
        new == [ i \in 1..Len(pages) |->
                   Draw(i, StampRect_addStampToAllPDFPages(
                               c.position, pages[1].width, pages[1].height)) ]
    IN  [ c EXCEPT !.pc = "save",
                   !.pdfDoc.draws = @ \o new,
                   !.trace = @ \o [i \in 1..Len(pages) |-> "draw"] ]

\* addStampToAllPDFPages: for (i = 0; i < pages.length; i++) { getSize; drawImage }
CompDrawAll(c) ==
    LET pages == c.pdfDoc.pages
        new == [ i \in 1..Len(pages) |->
                   Draw(i, StampRect_addStampToAllPDFPages(
                               c.position, pages[i].width, pages[i].height)) ]
    IN  [ c EXCEPT !.pc = "save",
                   !.pdfDoc.draws = @ \o new,
                   !.trace = @ \o [i \in 1..Len(pages) |-> "draw"] ]

\* await pdfDoc.save(); return modifiedPdfBytes
CompSave(c, ok) ==
    IF ok
    THEN [ c EXCEPT !.pc = "returned", !.trace = Append(@, "save"),
                    !.result = [kind |-> "bytes", message |-> "", doc |-> c.pdfDoc] ]
    ELSE CompThrow(c, Cause("SaveFailed", 0, 0))

CompRunning(c) == c.pc \notin {"idle", "returned", "threw"}

(***************************************************************************)
(* Page rasterizer: pdfPageToImage (pdf.ts:15-69).                         *)
(***************************************************************************)
\* canvas.toDataURL('image/png') of the rendered page: what is on that page
Image(file, pageNumber) ==
    [ empty |-> FALSE, name |-> file.name, page |-> pageNumber,
      size |-> << file.pages[pageNumber].width, file.pages[pageNumber].height >>,
      draws |-> SelectSeq(file.draws, LAMBDA d : d.page = pageNumber) ]

\* image: ''
EmptyImage ==
    [empty |-> TRUE, name |-> "", page |-> 0, size |-> << >>, draws |-> << >>]

\* the returned object; error.null stands for error: null, otherwise the
\* message, which names the page
RastResult(image, errorNull, file, pageNumber) ==
    [ image |-> image, error |-> [null |-> errorNull, page |-> pageNumber],
      fileName |-> file.name, pageNumber |-> pageNumber ]

NoRastResult ==
    [ image |-> EmptyImage, error |-> [null |-> TRUE, page |-> 0],
      fileName |-> "", pageNumber |-> 0 ]

IdleRast ==
    [ pc |-> "idle", file |-> BadFile, pageNumber |-> 0, pdfUrl |-> 0,
      trace |-> << >>, logged |-> NoCause, result |-> NoRastResult ]

NoUrls == [next |-> 1, live |-> {}, revoked |-> << >>]

\* const pdfUrl = URL.createObjectURL(file), the statement before the try
NewRast(file, pageNumber, u) ==
    [ IdleRast EXCEPT !.pc = "load", !.file = file, !.pageNumber = pageNumber,
                      !.pdfUrl = u.next ]

CreateObjectURL(u) == [u EXCEPT !.next = @ + 1, !.live = @ \cup {u.next}]

\* URL.revokeObjectURL(pdfUrl)
RevokeObjectURL(u, url) ==
    [u EXCEPT !.live = @ \ {url}, !.revoked = Append(@, url)]

\* mutant of RastCatch: the catch block logs and throws the error on
RastCatch_rethrow(r, cause) == [r EXCEPT !.pc = "threw", !.logged = cause]

\* catch (error) { console.error; return {image: '', error: <message>, ...} }
RastCatch(r, cause) ==
    [ r EXCEPT !.pc = "done", !.logged = cause,
               !.result = RastResult(EmptyImage, FALSE, r.file, r.pageNumber) ]

\* const pdf = await pdfjsLib.getDocument(pdfUrl).promise
pdfPageToImage_load ==
    /\ rast.pc = "load"
    /\ IF rast.file.wellFormed
       THEN /\ rast' = [rast EXCEPT !.pc = "check", !.trace = Append(@, "load")]
            /\ UNCHANGED urls
       ELSE /\ rast' = RastCatch(rast, Cause("LoadFailed", 0, 0))
            /\ urls' = RevokeObjectURL(urls, rast.pdfUrl)
    /\ UNCHANGED << comp, pimg, pcount, libVars, surfVars >>

\* mutant of pdfPageToImage_check: the URL is revoked at the end of the try
\* block instead of in a finally, so the out-of-range exit leaves it live
pdfPageToImage_check_leak ==
    /\ rast.pc = "check"
    /\ LET numPages == Len(rast.file.pages) IN
       IF rast.pageNumber < 1 \/ rast.pageNumber > numPages
       THEN rast' = RastCatch(rast, Cause("InvalidPage", 1, numPages))
       ELSE rast' = [rast EXCEPT !.pc = "render", !.trace = Append(@, "pagecheck")]
    /\ UNCHANGED << comp, pimg, urls, pcount, libVars, surfVars >>

\* if (pageNumber < 1 || pageNumber > pdf.numPages) throw
pdfPageToImage_check ==
    /\ rast.pc = "check"
    /\ LET numPages == Len(rast.file.pages) IN
       IF rast.pageNumber < 1 \/ rast.pageNumber > numPages
       THEN /\ rast' = RastCatch(rast, Cause("InvalidPage", 1, numPages))
            /\ urls' = RevokeObjectURL(urls, rast.pdfUrl)
       ELSE /\ rast' = [rast EXCEPT !.pc = "render", !.trace = Append(@, "pagecheck")]
            /\ UNCHANGED urls
    /\ UNCHANGED << comp, pimg, pcount, libVars, surfVars >>

\* image: await renderPageToImage(pageNumber); return; finally revoke.
\* getPage / render may reject (ok = FALSE)
pdfPageToImage_render ==
    /\ rast.pc = "render"
    /\ \E ok \in BOOLEAN :
         rast' = IF ok
                 THEN [ rast EXCEPT !.pc = "done", !.trace = Append(@, "render"),
                                    !.result = RastResult(Image(rast.file, rast.pageNumber),
                                                          TRUE, rast.file, rast.pageNumber) ]
                 ELSE RastCatch(rast, Cause("RenderFailed", 0, 0))
    /\ urls' = RevokeObjectURL(urls, rast.pdfUrl)
    /\ UNCHANGED << comp, pimg, pcount, libVars, surfVars >>

(***************************************************************************)
(* Page count: getPdfPageCount (pdf.ts:271-283).                           *)
(***************************************************************************)
\* the message of the Error thrown from the catch block (pdf.ts:279, a Korean
\* sentence: "an error occurred while checking the page count of the PDF")
PageCountFailedMessage == "error while checking the page count of the PDF file"

NoCount == [kind |-> "none", numPages |-> 0, message |-> ""]

IdleCount ==
    [pc |-> "idle", file |-> BadFile, pdfUrl |-> 0, logged |-> NoCause, result |-> NoCount]

\* const pdfUrl = URL.createObjectURL(file), the statement before the try
NewCount(file, u) == [IdleCount EXCEPT !.pc = "load", !.file = file, !.pdfUrl = u.next]

\* try { pdf = await getDocument(pdfUrl).promise; return pdf.numPages }
\* catch { console.error; throw new Error(...) } finally { revokeObjectURL }
getPdfPageCount_load ==
    /\ pcount.pc = "load"
    /\ pcount' = IF pcount.file.wellFormed
                 THEN [ pcount EXCEPT !.pc = "returned",
                          !.result = [ kind |-> "number",
                                       numPages |-> Len(pcount.file.pages),
                                       message |-> "" ] ]
                 ELSE [ pcount EXCEPT !.pc = "threw",
                          !.logged = Cause("LoadFailed", 0, 0),
                          !.result = [ kind |-> "error", numPages |-> 0,
                                       message |-> PageCountFailedMessage ] ]
    /\ urls' = RevokeObjectURL(urls, pcount.pdfUrl)
    /\ UNCHANGED << comp, rast, pimg, libVars, surfVars >>

(***************************************************************************)
(* The compositor's steps as actions on the running call.                  *)
(***************************************************************************)
addStamp_load ==
    /\ comp.pc = "load"
    /\ comp' = CompLoad(comp)
    /\ UNCHANGED << rast, pimg, urls, pcount, libVars, surfVars >>

addStamp_dataUrl ==
    /\ comp.pc = "dataurl"
    /\ comp' = CompDataUrl(comp)
    /\ UNCHANGED << rast, pimg, urls, pcount, libVars, surfVars >>

addStamp_embed ==
    /\ comp.pc = "embed"
    /\ comp' = CompEmbed(comp)
    /\ UNCHANGED << rast, pimg, urls, pcount, libVars, surfVars >>

addStampToPDF_pageCheck ==
    /\ comp.pc = "pagecheck"
    /\ comp' = CompPageCheck(comp)
    /\ UNCHANGED << rast, pimg, urls, pcount, libVars, surfVars >>

addStampToPDF_draw ==
    /\ comp.pc = "draw"
    /\ comp.fn = "addStampToPDF"
    /\ comp' = CompDrawOne(comp)
    /\ UNCHANGED << rast, pimg, urls, pcount, libVars, surfVars >>

addStampToAllPDFPages_draw ==
    /\ comp.pc = "draw"
    /\ comp.fn = "addStampToAllPDFPages"
    /\ comp' = CompDrawAll(comp)
    /\ UNCHANGED << rast, pimg, urls, pcount, libVars, surfVars >>

addStamp_save ==
    /\ comp.pc = "save"
    /\ \E ok \in BOOLEAN : comp' = CompSave(comp, ok)
    /\ UNCHANGED << rast, pimg, urls, pcount, libVars, surfVars >>

(***************************************************************************)
(* Store records (the store itself, '@/store', is not among the sources;   *)
(* the shapes are those the sources read and write).                       *)
(***************************************************************************)
Stamp(id, src, name) == [id |-> id, src |-> src, name |-> name]
NoStamp == Stamp(0, StampImage(FALSE, FALSE, FALSE, FALSE), "")

PageStamp(pageNumber, stampId, position) ==
    [pageNumber |-> pageNumber, stampId |-> stampId, position |-> position]

\* pageStamps.find(stamp => stamp.pageNumber === pageNumber): the index of
\* the first match, or 0
FindPageStamp(ps, pageNumber) ==
    IF \E i \in 1..Len(ps) : ps[i].pageNumber = pageNumber
    THEN CHOOSE i \in 1..Len(ps) :
            /\ ps[i].pageNumber = pageNumber
            /\ \A j \in 1..(i - 1) : ps[j].pageNumber # pageNumber
    ELSE 0

\* stamps.find(s => s.id === stampId): the index of the first match, or 0
FindStamp(lib, stampId) ==
    IF \E i \in 1..Len(lib) : lib[i].id = stampId
    THEN CHOOSE i \in 1..Len(lib) :
            /\ lib[i].id = stampId
            /\ \A j \in 1..(i - 1) : lib[j].id # stampId
    ELSE 0

(***************************************************************************)
(* Page image request: getPageImageByFile (pdf.ts:107-153).                *)
(***************************************************************************)
\* library snapshots read by useStore.getState()
LibraryStates ==
    { << >>,
      << Stamp(1, PngDataUrl, "one.png") >>,
      << Stamp(1, PngDataUrl, "one.png"),
         Stamp(2, StampImage(TRUE, TRUE, FALSE, FALSE), "two.jpg") >> }

\* recorded placements read by useStore.getState()
RecordedPositions ==
    { [defined |-> TRUE, x |-> x, y |-> y, width |-> 100, height |-> 100] :
        x \in Coords, y \in Coords }
PageStampStates ==
    { << >> } \cup
    { << PageStamp(p, i, pos) >> : p \in 1..2, i \in 1..2, pos \in RecordedPositions }

Max(a, b) == IF a > b THEN a ELSE b

\* mutant of ClampPosition: only x is clamped
ClampPosition_xOnly(position) == [position EXCEPT !.x = Max(0, position.x)]

\* position = {...pageStamp.position, x: Math.max(0, x), y: Math.max(0, y)}
ClampPosition(position) ==
    [position EXCEPT !.x = Max(0, position.x), !.y = Max(0, position.y)]

NoImageResult == [returned |-> FALSE, image |-> EmptyImage]

IdlePimg ==
    [ pc |-> "idle", file |-> BadFile, pageNumber |-> 0,
      pageStamps |-> << >>, stamps |-> << >>,
      logged |-> NoCause, result |-> NoImageResult ]

\* new File([new Blob([modifiedPdfBytes])], file.name)
ModifiedPdfFile(file, bytes) ==
    [name |-> file.name, wellFormed |-> TRUE, pages |-> bytes.pages, draws |-> bytes.draws]

\* the call up to its first await: read the store, look the placement and the
\* stamp up, then start either the plain rasterization, the compositing, or
\* (stamp not found: thrown and caught) the fallback rasterization
getPageImageByFile_call(file, pageNumber, ps, lib) ==
    LET p == [ IdlePimg EXCEPT !.file = file, !.pageNumber = pageNumber,
                               !.pageStamps = ps, !.stamps = lib ]
        k == FindPageStamp(ps, pageNumber)
        pageStamp == ps[k]
        j == FindStamp(lib, pageStamp.stampId)
        stamp == lib[j]
    IN  IF k = 0
        THEN /\ pimg' = [p EXCEPT !.pc = "plain"]
             /\ rast' = NewRast(file, pageNumber, NoUrls)
             /\ urls' = CreateObjectURL(NoUrls)
             /\ comp' = IdleComp
        ELSE IF j = 0
        THEN /\ pimg' = [p EXCEPT !.pc = "fallback", !.logged = Cause("StampNotFound", 0, 0)]
             /\ rast' = NewRast(file, pageNumber, NoUrls)
             /\ urls' = CreateObjectURL(NoUrls)
             /\ comp' = IdleComp
        ELSE /\ pimg' = [p EXCEPT !.pc = "stamping"]
             /\ comp' = NewComp("addStampToPDF", file, stamp.src,
                                ClampPosition(pageStamp.position), pageNumber)
             /\ rast' = IdleRast
             /\ urls' = NoUrls

\* addStampToPDF returned: wrap the bytes in a File and rasterize that
getPageImageByFile_stamped ==
    /\ pimg.pc = "stamping"
    /\ comp.pc = "returned"
    /\ pimg' = [pimg EXCEPT !.pc = "stamped"]
    /\ rast' = NewRast(ModifiedPdfFile(pimg.file, comp.result.doc), pimg.pageNumber, urls)
    /\ urls' = CreateObjectURL(urls)
    /\ UNCHANGED << comp, pcount, libVars, surfVars >>

\* mutant of getPageImageByFile_catch: the failure is passed on to the caller
getPageImageByFile_catch_rethrow ==
    /\ pimg.pc = "stamping"
    /\ comp.pc = "threw"
    /\ pimg' = [pimg EXCEPT !.pc = "done", !.logged = Cause("StampApplyFailed", 0, 0)]
    /\ UNCHANGED << comp, rast, urls, pcount, libVars, surfVars >>

\* addStampToPDF threw: catch, log, rasterize the original file
getPageImageByFile_catch ==
    /\ pimg.pc = "stamping"
    /\ comp.pc = "threw"
    /\ pimg' = [pimg EXCEPT !.pc = "fallback", !.logged = Cause("StampApplyFailed", 0, 0)]
    /\ rast' = NewRast(pimg.file, pimg.pageNumber, urls)
    /\ urls' = CreateObjectURL(urls)
    /\ UNCHANGED << comp, pcount, libVars, surfVars >>

\* return result.image
getPageImageByFile_return ==
    /\ pimg.pc \in {"plain", "stamped", "fallback"}
    /\ rast.pc = "done"
    /\ pimg' = [ pimg EXCEPT !.pc = "done",
                             !.result = [returned |-> TRUE, image |-> rast.result.image] ]
    /\ UNCHANGED << comp, rast, urls, pcount, libVars, surfVars >>

(***************************************************************************)
(* The callers of pdf.ts: one request at a time, each started when the     *)
(* previous one has finished.                                              *)
(***************************************************************************)
PdfIdle ==
    /\ comp.pc = "idle"
    /\ rast.pc = "idle"
    /\ pimg.pc = "idle"
    /\ pcount.pc = "idle"

\* the request at the top has finished (returned or thrown)
PdfFinished ==
    \/ pimg.pc = "done"
    \/ pimg.pc = "idle" /\ comp.pc \in {"returned", "threw"}
    \/ pimg.pc = "idle" /\ rast.pc = "done"
    \/ pcount.pc \in {"returned", "threw"}

\* the caller has taken the result; nothing of the call is kept
Caller_receive ==
    /\ PdfFinished
    /\ comp' = IdleComp
    /\ rast' = IdleRast
    /\ pimg' = IdlePimg
    /\ pcount' = IdleCount
    /\ urls' = NoUrls
    /\ UNCHANGED << libVars, surfVars >>

Call_pdfPageToImage ==
    /\ PdfIdle
    /\ \E file \in Files, pageNumber \in PageNumbers :
         /\ rast' = NewRast(file, pageNumber, NoUrls)
         /\ urls' = CreateObjectURL(NoUrls)
    /\ comp' = IdleComp
    /\ pimg' = IdlePimg
    /\ UNCHANGED << pcount, libVars, surfVars >>

Call_addStampToPDF ==
    /\ PdfIdle
    /\ \E file \in Files, stampImage \in StampImages,
          position \in OptPositions, pageNumber \in PageNumbers :
         comp' = NewComp("addStampToPDF", file, stampImage, position, pageNumber)
    /\ rast' = IdleRast
    /\ pimg' = IdlePimg
    /\ urls' = NoUrls
    /\ UNCHANGED << pcount, libVars, surfVars >>

Call_addStampToAllPDFPages ==
    /\ PdfIdle
    /\ \E file \in Files, stampImage \in StampImages, position \in OptPositions :
         comp' = NewComp("addStampToAllPDFPages", file, stampImage, position, 0)
    /\ rast' = IdleRast
    /\ pimg' = IdlePimg
    /\ urls' = NoUrls
    /\ UNCHANGED << pcount, libVars, surfVars >>

Call_getPdfPageCount ==
    /\ PdfIdle
    /\ \E file \in Files : pcount' = NewCount(file, NoUrls)
    /\ urls' = CreateObjectURL(NoUrls)
    /\ UNCHANGED << comp, rast, pimg, libVars, surfVars >>

Call_getPageImageByFile ==
    /\ PdfIdle
    /\ \E file \in Files, pageNumber \in PageNumbers,
          ps \in PageStampStates, lib \in LibraryStates :
         getPageImageByFile_call(file, pageNumber, ps, lib)
    /\ UNCHANGED << pcount, libVars, surfVars >>

InitPdf ==
    /\ comp = IdleComp
    /\ rast = IdleRast
    /\ pimg = IdlePimg
    /\ pcount = IdleCount
    /\ urls = NoUrls

NextPdf ==
    \/ Call_pdfPageToImage
    \/ Call_addStampToPDF
    \/ Call_addStampToAllPDFPages
    \/ Call_getPageImageByFile
    \/ Call_getPdfPageCount
    \/ getPdfPageCount_load
    \/ pdfPageToImage_load
    \/ pdfPageToImage_check
    \/ pdfPageToImage_render
    \/ addStamp_load
    \/ addStamp_dataUrl
    \/ addStamp_embed
    \/ addStampToPDF_pageCheck
    \/ addStampToPDF_draw
    \/ addStampToAllPDFPages_draw
    \/ addStamp_save
    \/ getPageImageByFile_stamped
    \/ getPageImageByFile_catch
    \/ getPageImageByFile_return
    \/ Caller_receive

(***************************************************************************)
(* Properties of the stamp compositor and the page rasterizer.             *)
(***************************************************************************)
\* v surface units along an axis of surfaceSize, on a page axis of pageSize
Scaled(v, pageSize, surfaceSize) == RDiv(RMul(RInt(v), pageSize), surfaceSize)

InRange(pageNumber, file) == 1 <= pageNumber /\ pageNumber <= Len(file.pages)

\* the draws the running compositor call has made
CompDraws == comp.pdfDoc.draws
PageOfDraw(d) == comp.pdfDoc.pages[d.page]

\* C3 as stated: the x drawn on a page is max(0, rect.x * pageWidth /
\* SURFACE_WIDTH), for every supplied rectangle and page, in addStampToPDF and
\* in addStampToAllPDFPages.
C3_DrawnXIsClampedAtZero ==
    comp.position.defined =>
        \A k \in 1..Len(CompDraws) :
            CompDraws[k].rect.x =
                RMax(RInt(0), Scaled(comp.position.x, PageOfDraw(CompDraws[k]).width,
                                     FABRIC_CANVAS_WIDTH))

\* C3 amended: the x drawn on a page is rect.x * pageWidth / SURFACE_WIDTH,
\* not clamped: negative exactly when rect.x is negative.
C3_DrawnXIsScaledX ==
    comp.position.defined =>
        \A k \in 1..Len(CompDraws) :
            /\ CompDraws[k].rect.x =
                   Scaled(comp.position.x, PageOfDraw(CompDraws[k]).width,
                          FABRIC_CANVAS_WIDTH)
            /\ RIsNeg(CompDraws[k].rect.x) <=> comp.position.x < 0

\* both functions have drawn a rectangle whose x is negative
C3_Witness ==
    /\ comp.position.defined
    /\ comp.position.x < 0
    /\ comp.fn = "addStampToAllPDFPages"
    /\ Len(CompDraws) >= 2
    /\ RIsNeg(CompDraws[2].rect.x)

\* the one Error the compositor throws
CoarseError == [kind |-> "error", message |-> StampApplyFailedMessage, doc |-> NoPdfDoc]

\* C4 as stated: an out-of-range pageNumber fails with an error of its own
\* kind, which the caller can tell from the error of any other failure
\* (here: from a failed document load, resp. a failed render).
C4_InvalidPageIsDistinctKind ==
    /\ (comp.pc = "threw" /\ comp.logged.kind = "InvalidPage")
           => comp.result # CompThrow(comp, Cause("LoadFailed", 0, 0)).result
    /\ (rast.pc = "done" /\ rast.logged.kind = "InvalidPage")
           => rast.result # RastCatch(rast, Cause("RenderFailed", 0, 0)).result

\* C4 amended: a pageNumber outside 1..P that reaches the page check fails
\* there; addStampToPDF throws the one coarse error and has drawn nothing,
\* pdfPageToImage returns an empty image with a non-null error; the range
\* 1..P is in the logged cause only. A pageNumber in 1..P never fails the page
\* check, and the page drawn on or rendered is that page (no clamping).
C4_PageBounds ==
    /\ comp.fn = "addStampToPDF" =>
        /\ (comp.pc = "threw" /\ comp.trace = << "load", "decode", "embed" >>)
               <=> (comp.logged.kind = "InvalidPage")
        /\ comp.logged.kind = "InvalidPage" =>
               /\ ~InRange(comp.pageNumber, comp.file)
               /\ comp.logged = Cause("InvalidPage", 1, Len(comp.file.pages))
               /\ comp.result = CoarseError
               /\ CompDraws = << >>
        /\ comp.pc \in {"draw", "save", "returned"} => InRange(comp.pageNumber, comp.file)
        /\ \A k \in 1..Len(CompDraws) : CompDraws[k].page = comp.pageNumber
    /\ (rast.pc = "done" /\ rast.trace = << "load" >>)
           <=> (rast.logged.kind = "InvalidPage")
    /\ rast.logged.kind = "InvalidPage" =>
           /\ ~InRange(rast.pageNumber, rast.file)
           /\ rast.logged = Cause("InvalidPage", 1, Len(rast.file.pages))
           /\ rast.result = RastResult(EmptyImage, FALSE, rast.file, rast.pageNumber)
    /\ rast.pc = "render" => InRange(rast.pageNumber, rast.file)
    /\ (rast.pc = "done" /\ ~rast.result.image.empty)
           => rast.result.image.page = rast.pageNumber

\* addStampToPDF has thrown for page P+1 of a P-page document
C4_Witness ==
    /\ comp.fn = "addStampToPDF"
    /\ comp.pc = "threw"
    /\ comp.logged.kind = "InvalidPage"
    /\ comp.pageNumber = Len(comp.file.pages) + 1

\* the stamp image passes both tests of the code
AcceptedFormat(stampImage) == stampImage.dataUrl /\ stampImage.png

\* C5 as stated: a stamp image that is not a PNG data URL fails with an error
\* of its own kind, which the caller can tell from a page-number failure.
C5_UnsupportedFormatIsDistinctKind ==
    (comp.pc = "threw" /\ comp.logged.kind \in {"NotDataUrl", "NotPng"})
        => comp.result # CompThrow(comp, Cause("InvalidPage", 1, Len(comp.file.pages))).result

\* C5 amended: a stamp image that does not start with 'data:' or does not
\* contain 'image/png' makes both functions throw the one coarse error (the
\* same as for every other failure); no stamped document is returned and
\* nothing is embedded or drawn.
C5_UnsupportedFormatFails ==
    ~AcceptedFormat(comp.stampImage) =>
        /\ comp.pc # "returned"
        /\ comp.result.kind # "bytes"
        /\ comp.embeds = 0
        /\ CompDraws = comp.file.draws
        /\ comp.pc \notin {"pagecheck", "draw", "save"}
        /\ comp.pc = "threw" =>
              /\ comp.result = CoarseError
              /\ comp.logged.kind \in {"LoadFailed", "NotDataUrl", "DecodeFailed", "NotPng"}
              /\ comp.file.wellFormed /\ ~comp.stampImage.dataUrl
                    => comp.logged.kind = "NotDataUrl"
              /\ comp.file.wellFormed /\ comp.stampImage.dataUrl /\ comp.stampImage.base64
                    => comp.logged.kind = "NotPng"

\* addStampToAllPDFPages has thrown for a JPEG data URL
C5_Witness ==
    /\ comp.fn = "addStampToAllPDFPages"
    /\ comp.pc = "threw"
    /\ comp.logged.kind = "NotPng"
    /\ comp.stampImage.dataUrl

AllCauses ==
    { "LoadFailed", "NotDataUrl", "DecodeFailed", "NotPng", "EmbedFailed",
      "InvalidPage", "SaveFailed" }

\* C6: a run of addStampToPDF or addStampToAllPDFPages ends either returning
\* the bytes of the fully drawn document or throwing the one coarse error;
\* whatever step fails, no bytes are returned and the error is the same.
C6_CompositingIsAtomic ==
    /\ comp.pc \notin {"returned", "threw"} => comp.result = NoResult
    /\ comp.pc = "returned" =>
        /\ comp.result = [kind |-> "bytes", message |-> "", doc |-> comp.pdfDoc]
        /\ comp.pdfDoc.pages = comp.file.pages
        /\ comp.logged = NoCause
        /\ IF comp.fn = "addStampToPDF"
           THEN /\ comp.trace = << "load", "decode", "embed", "pagecheck", "draw", "save" >>
                /\ Len(CompDraws) = Len(comp.file.draws) + 1
           ELSE /\ Len(CompDraws) = Len(comp.file.draws) + Len(comp.file.pages)
                /\ comp.trace[Len(comp.trace)] = "save"
    /\ comp.pc = "threw" =>
        /\ comp.result = CoarseError
        /\ comp.logged.kind \in AllCauses
        /\ "save" \notin { comp.trace[k] : k \in 1..Len(comp.trace) }

\* the document was drawn on and then failed to serialize: nothing is returned
C6_Witness ==
    /\ comp.pc = "threw"
    /\ comp.logged.kind = "SaveFailed"
    /\ Len(CompDraws) = 3
    /\ comp.result = CoarseError

\* the placement recorded for the requested page, and its stamp in the library
PimgPlacement == FindPageStamp(pimg.pageStamps, pimg.pageNumber)
PimgStamp == FindStamp(pimg.stamps, pimg.pageStamps[PimgPlacement].stampId)

\* the last pdfPageToImage call rasterized the caller's own file and page
RasterizedOriginal ==
    /\ rast.pc = "done"
    /\ rast.file = pimg.file
    /\ rast.pageNumber = pimg.pageNumber

\* C7: getPageImageByFile never raises because of a stamp problem: with a
\* placement whose stamp is gone from the library, or when compositing
\* fails, it returns the result of rasterizing the unstamped file and page;
\* with no placement it returns that without attempting compositing.
C7_FallbackToUnstamped ==
    pimg.pc = "done" =>
        /\ pimg.result.returned
        /\ pimg.result.image = rast.result.image
        /\ PimgPlacement = 0 => comp.pc = "idle" /\ RasterizedOriginal
        /\ (PimgPlacement # 0 /\ PimgStamp = 0) => comp.pc = "idle" /\ RasterizedOriginal
        /\ comp.pc = "threw" => RasterizedOriginal
        /\ RasterizedOriginal =>
              /\ pimg.result.image.draws = << >>
              /\ pimg.result.image \in
                    { EmptyImage } \cup
                    { Image(pimg.file, n) : n \in {pimg.pageNumber} \cap 1..Len(pimg.file.pages) }

\* compositing failed (the stamp in the library is a JPEG) and the request
\* returned the unstamped page
C7_Witness ==
    /\ pimg.pc = "done"
    /\ comp.pc = "threw"
    /\ comp.logged.kind = "NotPng"
    /\ ~pimg.result.image.empty
    /\ pimg.result.image = Image(pimg.file, pimg.pageNumber)

\* C8 as stated: with an out-of-range pageNumber the failure occurs before
\* the document is loaded, before the stamp is decoded or embedded and before
\* any page is drawn.
C8_PageCheckedBeforeAnyWork ==
    /\ comp.logged.kind = "InvalidPage" => comp.trace = << >> /\ comp.embeds = 0
    /\ rast.logged.kind = "InvalidPage" => rast.trace = << >>

\* C8 amended: the page number is checked after the document has been loaded
\* (the page count comes from it) and, in addStampToPDF, after the stamp has
\* been decoded and embedded; it is checked before any page is drawn or
\* rendered and before the document is saved.
C8_PageCheckedBeforeDraw ==
    /\ comp.logged.kind = "InvalidPage" =>
        /\ comp.trace = << "load", "decode", "embed" >>
        /\ comp.embeds = 1
        /\ CompDraws = comp.file.draws
    /\ comp.fn = "addStampToPDF" =>
        \A k \in 1..Len(comp.trace) :
            comp.trace[k] \in {"draw", "save"} =>
                \E j \in 1..(k - 1) : comp.trace[j] = "pagecheck"
    /\ rast.logged.kind = "InvalidPage" => rast.trace = << "load" >>
    /\ \A k \in 1..Len(rast.trace) :
            rast.trace[k] = "render" => \E j \in 1..(k - 1) : rast.trace[j] = "pagecheck"

\* pdfPageToImage has failed its page check, after loading the document
C8_Witness ==
    /\ rast.pc = "done"
    /\ rast.logged.kind = "InvalidPage"
    /\ rast.pageNumber = 0
    /\ rast.trace = << "load" >>

\* spec 4.1: toPageSpace(editingRect, pageGeometry)
ToPageSpace(position, page) ==
    LET w == Scaled(position.width, page.width, FABRIC_CANVAS_WIDTH)
        h == Scaled(position.height, page.height, FABRIC_CANVAS_HEIGHT)
    IN  [ x |-> RMax(RInt(0), Scaled(position.x, page.width, FABRIC_CANVAS_WIDTH)),
          y |-> RSub(RSub(page.height,
                          Scaled(position.y, page.height, FABRIC_CANVAS_HEIGHT)), h),
          width |-> w, height |-> h ]

\* the same without the clamp of x
ScaleAndFlip(position, page) ==
    [ ToPageSpace(position, page) EXCEPT
        !.x = Scaled(position.x, page.width, FABRIC_CANVAS_WIDTH) ]

\* addStampToAllPDFPages has run its loop
AllPagesDrawn ==
    /\ comp.fn = "addStampToAllPDFPages"
    /\ comp.position.defined
    /\ \/ comp.pc \in {"save", "returned"}
       \/ comp.pc = "threw" /\ comp.logged.kind = "SaveFailed"

\* C9 as stated: addStampToAllPDFPages draws once on every page, in page
\* order, the Coordinate Transform (spec 4.1) of the supplied rectangle
\* against that page's own size; the image is embedded once.
C9_EveryPageGetsTransform ==
    AllPagesDrawn =>
        /\ comp.embeds = 1
        /\ CompDraws = [ i \in 1..Len(comp.file.pages) |->
                           Draw(i, ToPageSpace(comp.position, comp.file.pages[i])) ]

\* C9 amended: as stated, with the rectangle scaled and flipped but its x not
\* clamped at 0 (it is the Coordinate Transform's output when rect.x >= 0).
C9_EveryPageGetsScaledRect ==
    /\ AllPagesDrawn =>
        /\ comp.embeds = 1
        /\ CompDraws = [ i \in 1..Len(comp.file.pages) |->
                           Draw(i, ScaleAndFlip(comp.position, comp.file.pages[i])) ]
        /\ comp.position.x >= 0 =>
              \A i \in 1..Len(CompDraws) :
                  CompDraws[i].rect = ToPageSpace(comp.position, comp.file.pages[i])
    /\ comp.fn = "addStampToAllPDFPages" /\ comp.pc \in {"load", "dataurl", "embed", "draw"}
           => CompDraws = << >>

\* three pages of three sizes, three different rectangles
C9_Witness ==
    /\ AllPagesDrawn
    /\ comp.pc = "returned"
    /\ Len(comp.result.doc.draws) = 3
    /\ comp.result.doc.draws[1].rect # comp.result.doc.draws[2].rect
    /\ comp.result.doc.draws[2].rect # comp.result.doc.draws[3].rect
    /\ comp.result.doc.draws[1].rect # comp.result.doc.draws[3].rect

SurfaceSized(page) ==
    page.width = FABRIC_CANVAS_WIDTH /\ page.height = FABRIC_CANVAS_HEIGHT

\* C10: on a page of the editing surface's size a supplied {x, y, w, h} with
\* x >= 0 is drawn as {x, pageHeight - y - h, w, h}; in general the drawn y is
\* pageHeight - y * scaleY - h * scaleY, not clamped.
C10_IdentityScaleFlipsOnly ==
    comp.position.defined =>
        \A k \in 1..Len(CompDraws) :
            LET page == PageOfDraw(CompDraws[k])
                rect == CompDraws[k].rect
                p == comp.position
            IN  /\ rect.y = RSub(RSub(page.height,
                                      Scaled(p.y, page.height, FABRIC_CANVAS_HEIGHT)),
                                 Scaled(p.height, page.height, FABRIC_CANVAS_HEIGHT))
                /\ (SurfaceSized(page) /\ p.x >= 0) =>
                       rect = [ x |-> RInt(p.x),
                                y |-> RSub(RSub(page.height, RInt(p.y)), RInt(p.height)),
                                width |-> RInt(p.width), height |-> RInt(p.height) ]

\* a 60 x 150 rectangle at (40, -40) on a surface-sized page: drawn with the
\* same size, reaching above the page's top edge
C10_Witness ==
    /\ comp.fn = "addStampToPDF"
    /\ comp.position = [defined |-> TRUE, x |-> 40, y |-> -40, width |-> 60, height |-> 150]
    /\ Len(CompDraws) = 1
    /\ SurfaceSized(PageOfDraw(CompDraws[1]))
    /\ CompDraws[1].rect.width = RInt(60)
    /\ CompDraws[1].rect.height = RInt(150)
    /\ RIsNeg(RSub(PageOfDraw(CompDraws[1]).height,
                   RSub(CompDraws[1].rect.y, RNeg(CompDraws[1].rect.height))))

(***************************************************************************)
(* Stamp library: StampUploader (styles.ts:61-144) and the store actions   *)
(* it calls.                                                               *)
(***************************************************************************)
\* if (stamps.length >= 5), styles.ts:74
MaxStamps == 5

\* files the user can pick in the file input: validateStampFile's verdict,
\* and what FileReader.readAsDataURL yields for the file
UploadFiles ==
    { [name |-> "seal.png", valid |-> TRUE, src |-> PngDataUrl],
      [name |-> "huge.png", valid |-> FALSE, src |-> PngDataUrl] }

\* a FileReader read in flight; sizeAtStart records stamps.length when
\* handleStampChange started it
Reader(file, sizeAtStart) ==
    [name |-> file.name, src |-> file.src, sizeAtStart |-> sizeAtStart]

\* store.addStamp: the Stamp Library rejects an asset beyond its bound
addStamp(lib, newStamp) ==
    IF Len(lib) >= MaxStamps THEN lib ELSE Append(lib, newStamp)

\* store.removeStamp
removeStamp(lib, stampId) == SelectSeq(lib, LAMBDA s : s.id # stampId)

\* mutant of StartUpload: stamps.length > 5
StartUpload_offByOne(rs, lib, selectedFile) ==
    IF Len(lib) > MaxStamps
    THEN rs
    ELSE IF selectedFile.valid
         THEN Append(rs, Reader(selectedFile, Len(lib)))
         ELSE rs

\* handleStampChange up to reader.readAsDataURL: the readers in flight after a
\* change event carrying selectedFile
StartUpload(rs, lib, selectedFile) ==
    IF Len(lib) >= MaxStamps
    THEN rs
    ELSE IF selectedFile.valid
         THEN Append(rs, Reader(selectedFile, Len(lib)))
         ELSE rs

handleStampChange ==
    /\ \E selectedFile \in UploadFiles :
         /\ Len(StartUpload(readers, stamps, selectedFile)) <= MaxReaders
         /\ readers' = StartUpload(readers, stamps, selectedFile)
    /\ UNCHANGED << stamps, selectedStamp, nextId, pdfVars, surfVars >>

RemoveAt(seq, k) == SubSeq(seq, 1, k - 1) \o SubSeq(seq, k + 1, Len(seq))

\* reader.onload: newStamp = {id: uuidv4(), src: result, name}; addStamp(newStamp)
reader_onload ==
    /\ nextId < MaxIds
    /\ \E k \in 1..Len(readers) :
         /\ stamps' = addStamp(stamps, Stamp(nextId + 1, readers[k].src, readers[k].name))
         /\ readers' = RemoveAt(readers, k)
    /\ nextId' = nextId + 1
    /\ UNCHANGED << selectedStamp, pdfVars, surfVars >>

\* the read fails: no onerror handler is set, nothing happens
reader_onerror ==
    /\ \E k \in 1..Len(readers) : readers' = RemoveAt(readers, k)
    /\ UNCHANGED << stamps, selectedStamp, nextId, pdfVars, surfVars >>

handleStampRemove ==
    /\ \E k \in 1..Len(stamps) : stamps' = removeStamp(stamps, stamps[k].id)
    /\ UNCHANGED << selectedStamp, readers, nextId, pdfVars, surfVars >>

\* the store's selectStamp(stamp) ('@/store' is not among the sources): the
\* new value of selectedStamp; nothing else in the store changes
selectStamp(stamp) == stamp

\* mutant of ToggleSelection: a click always selects the clicked stamp
ToggleSelection_selectOnly(current, stamp) == stamp

\* selectStamp(selectedStamp?.id === stamp.id ? null : stamp)
ToggleSelection(current, stamp) == IF current.id = stamp.id THEN NoStamp ELSE stamp

handleStampSelect ==
    /\ \E k \in 1..Len(stamps) :
         selectedStamp' = selectStamp(ToggleSelection(selectedStamp, stamps[k]))
    /\ UNCHANGED << stamps, readers, nextId, pdfVars, surfVars >>

InitLibrary ==
    /\ stamps = << >>
    /\ selectedStamp = NoStamp
    /\ readers = << >>
    /\ nextId = 0

NextLibrary ==
    \/ handleStampChange
    \/ reader_onload
    \/ reader_onerror
    \/ handleStampRemove
    \/ handleStampSelect

(***************************************************************************)
(* Editing surface: useStampAdder (pdf.ts:390-522).                        *)
(***************************************************************************)
\* intrinsic sizes of the stamp images that load
ImageSizes == { << 200, 50 >>, << 80, 60 >>, << 50, 300 >> }

\* a fabric object on the canvas
FabricImage(id, width, height) ==
    [ id |-> id, width |-> RInt(width), height |-> RInt(height),
      scaleX |-> RInt(1), scaleY |-> RInt(1), left |-> RInt(0), top |-> RInt(0) ]
NoObject == FabricImage(0, 0, 0)

EmptyCanvas == [objects |-> << >>, active |-> 0]

\* canvas.remove(obj); removing the active object discards the selection
CanvasRemove(cv, obj) ==
    [ objects |-> SelectSeq(cv.objects, LAMBDA o : o.id # obj.id),
      active |-> IF cv.active = obj.id THEN 0 ELSE cv.active ]

\* canvas.add(obj); canvas.setActiveObject(obj)
CanvasAddActive(cv, obj) ==
    [objects |-> Append(cv.objects, obj), active |-> obj.id]

\* mutant of ScaledAndCentred: each axis gets its own factor, so that a too
\* large image fills the 100 x 100 box
ScaledAndCentred_perAxis(fabricImg) ==
    LET maxSize == RInt(100)
        big == \/ ~RLeq(fabricImg.width, maxSize)
               \/ ~RLeq(fabricImg.height, maxSize)
        img == IF big THEN [ fabricImg EXCEPT !.scaleX = RDiv(maxSize, fabricImg.width),
                                              !.scaleY = RDiv(maxSize, fabricImg.height) ]
               ELSE fabricImg
    IN  [ img EXCEPT
            !.left = RSub(RDiv(FABRIC_CANVAS_WIDTH, RInt(2)),
                          RDiv(RMul(img.width, img.scaleX), RInt(2))),
            !.top = RSub(RDiv(FABRIC_CANVAS_HEIGHT, RInt(2)),
                         RDiv(RMul(img.height, img.scaleY), RInt(2))) ]

\* pdf.ts:418-435: scale a too large image down uniformly and centre it
ScaledAndCentred(fabricImg) ==
    LET maxSize == RInt(100)
        big == \/ ~RLeq(fabricImg.width, maxSize)
               \/ ~RLeq(fabricImg.height, maxSize)
        scale == RMin(RDiv(maxSize, fabricImg.width), RDiv(maxSize, fabricImg.height))
        img == IF big THEN [fabricImg EXCEPT !.scaleX = scale, !.scaleY = scale]
               ELSE fabricImg
    IN  [ img EXCEPT
            !.left = RSub(RDiv(FABRIC_CANVAS_WIDTH, RInt(2)),
                          RDiv(RMul(img.width, img.scaleX), RInt(2))),
            !.top = RSub(RDiv(FABRIC_CANVAS_HEIGHT, RInt(2)),
                         RDiv(RMul(img.height, img.scaleY), RInt(2))) ]

\* a call of addStampToCanvas or focusActiveStamp: what its promise resolved
\* to ("pending", "true", "false"); a focusActiveStamp call that awaits
\* addStampToCanvas names that call in awaits; toast is the toast the call
\* has shown ("none", "success", "error")
Call(fn, result, awaits) ==
    [fn |-> fn, result |-> result, awaits |-> awaits, toast |-> "none"]

\* toast.success(...) / toast.error(...) shown by a call
Toast(call, kind) == [call EXCEPT !.toast = kind]

\* mutant of addStampToCanvas: the previous object is removed from the canvas
\* but the store keeps referencing it
addStampToCanvas_keepRef(id, cs) ==
    IF selectedStamp = NoStamp
    THEN /\ calls' = Append(cs, Call("addStampToCanvas", "false", 0))
         /\ UNCHANGED << canvas, stampObject, loads >>
    ELSE /\ calls' = Append(cs, Call("addStampToCanvas", "pending", 0))
         /\ canvas' = IF stampObject # NoObject THEN CanvasRemove(canvas, stampObject)
                      ELSE canvas
         /\ UNCHANGED stampObject
         /\ loads' = loads \cup {id}

\* mutant of addStampToCanvas: the placed object is removed before the
\* selection is looked at
addStampToCanvas_removeFirst(id, cs) ==
    /\ IF stampObject # NoObject
       THEN /\ canvas' = CanvasRemove(canvas, stampObject)
            /\ stampObject' = NoObject
       ELSE UNCHANGED << canvas, stampObject >>
    /\ IF selectedStamp = NoStamp
       THEN /\ calls' = Append(cs, Call("addStampToCanvas", "false", 0))
            /\ UNCHANGED loads
       ELSE /\ calls' = Append(cs, Call("addStampToCanvas", "pending", 0))
            /\ loads' = loads \cup {id}

\* the body of addStampToCanvas as call number id, made after the calls cs
\* (the executor of the Promise runs synchronously, up to img.src = ...).
\* selectedStamp and stampObject are the store's values at the call: the
\* component has re-rendered, and useCallback has rebuilt the function, since
\* the store last changed.
addStampToCanvas(id, cs) ==
    IF selectedStamp = NoStamp
    THEN /\ calls' = Append(cs, Call("addStampToCanvas", "false", 0))
         /\ UNCHANGED << canvas, stampObject, loads >>
    ELSE /\ calls' = Append(cs, Call("addStampToCanvas", "pending", 0))
         /\ IF stampObject # NoObject
            THEN /\ canvas' = CanvasRemove(canvas, stampObject)
                 /\ stampObject' = NoObject
            ELSE UNCHANGED << canvas, stampObject >>
         /\ loads' = loads \cup {id}

\* addStampToCanvas called by the component
Call_addStampToCanvas ==
    /\ Len(calls) < MaxCalls
    /\ addStampToCanvas(Len(calls) + 1, calls)
    /\ UNCHANGED << pdfVars, libVars >>

\* focusActiveStamp up to its first await, or to its return
Call_focusActiveStamp ==
    /\ Len(calls) + (IF stampObject = NoObject /\ selectedStamp # NoStamp THEN 2 ELSE 1)
          <= MaxCalls
    /\ IF stampObject = NoObject
       THEN IF selectedStamp # NoStamp
            THEN addStampToCanvas(Len(calls) + 2,
                     Append(calls, Call("focusActiveStamp", "pending", Len(calls) + 2)))
            ELSE /\ calls' = Append(calls, Toast(Call("focusActiveStamp", "false", 0), "error"))
                 /\ UNCHANGED << canvas, stampObject, loads >>
       ELSE /\ canvas' = [canvas EXCEPT !.active = stampObject.id]
            /\ calls' = Append(calls, Toast(Call("focusActiveStamp", "true", 0), "success"))
            /\ UNCHANGED << stampObject, loads >>
    /\ UNCHANGED << pdfVars, libVars >>

\* mutant of Resolve: focusActiveStamp returns true once the awaited
\* addStampToCanvas has settled, whatever it resolved to
Resolve_ignoreOutcome(cs, id, value, placed) ==
    [ k \in 1..Len(cs) |->
        IF k = id
        THEN [ cs[k] EXCEPT !.result = value,
                            !.toast = IF value = "true" THEN "success" ELSE "error" ]
        ELSE IF cs[k].awaits = id /\ cs[k].result = "pending"
        THEN [cs[k] EXCEPT !.result = "true"]
        ELSE cs[k] ]

\* the promise of call id resolves to value, after toast.success (true) or
\* toast.error (false); a focusActiveStamp call awaiting it resumes at once:
\* it returns true if placement succeeded and the store holds a placed object
\* (given as placed), false otherwise
Resolve(cs, id, value, placed) ==
    [ k \in 1..Len(cs) |->
        IF k = id
        THEN [ cs[k] EXCEPT !.result = value,
                            !.toast = IF value = "true" THEN "success" ELSE "error" ]
        ELSE IF cs[k].awaits = id /\ cs[k].result = "pending"
        THEN [cs[k] EXCEPT !.result = IF value = "true" /\ placed THEN "true" ELSE "false"]
        ELSE cs[k] ]

\* mutant of img_onload: the object is added and referenced first and the
\* failure of the fabric processing is noticed afterwards
img_onload_writeFirst ==
    /\ \E id \in loads, size \in ImageSizes, fabricOk \in BOOLEAN :
         LET fabricImg == ScaledAndCentred(FabricImage(id, size[1], size[2])) IN
         /\ loads' = loads \ {id}
         /\ canvas' = CanvasAddActive(canvas, fabricImg)
         /\ stampObject' = fabricImg
         /\ calls' = Resolve(calls, id, IF fabricOk THEN "true" ELSE "false", TRUE)
    /\ UNCHANGED << pdfVars, libVars >>

\* img.onload of call id: the image has intrinsic size size; fabricOk is
\* whether new fabric.FabricImage(img) succeeds
img_onload ==
    /\ \E id \in loads, size \in ImageSizes, fabricOk \in BOOLEAN :
         /\ loads' = loads \ {id}
         /\ IF fabricOk
            THEN LET fabricImg == ScaledAndCentred(FabricImage(id, size[1], size[2])) IN
                 /\ canvas' = CanvasAddActive(canvas, fabricImg)
                 /\ stampObject' = fabricImg
                 /\ calls' = Resolve(calls, id, "true", TRUE)
            ELSE /\ calls' = Resolve(calls, id, "false", stampObject # NoObject)
                 /\ UNCHANGED << canvas, stampObject >>
    /\ UNCHANGED << pdfVars, libVars >>

\* img.onerror of call id
img_onerror ==
    /\ \E id \in loads :
         /\ loads' = loads \ {id}
         /\ calls' = Resolve(calls, id, "false", stampObject # NoObject)
    /\ UNCHANGED << canvas, stampObject, pdfVars, libVars >>

InitSurface ==
    /\ canvas = EmptyCanvas
    /\ stampObject = NoObject
    /\ loads = {}
    /\ calls = << >>

\* the library after two uploads
InitLibraryLoaded ==
    /\ stamps = << Stamp(1, PngDataUrl, "seal.png"), Stamp(2, PngDataUrl, "seal.png") >>
    /\ selectedStamp = NoStamp
    /\ readers = << >>
    /\ nextId = 2

NextSurface ==
    \/ Call_addStampToCanvas
    \/ Call_focusActiveStamp
    \/ img_onload
    \/ img_onerror
    \/ handleStampSelect

(***************************************************************************)
(* Specifications: the three parts share no state that the code of one     *)
(* writes and the code of another reads, except the store's stamps and     *)
(* selectedStamp, which SpecSurface and the page image request take as     *)
(* given.                                                                  *)
(***************************************************************************)
Init == InitPdf /\ InitLibrary /\ InitSurface

SpecPdf == Init /\ [][NextPdf]_vars

SpecLibrary == Init /\ [][NextLibrary]_vars

InitLoaded == InitPdf /\ InitLibraryLoaded /\ InitSurface

SpecSurface == InitLoaded /\ [][NextSurface]_vars

\* the whole program; each part is checked under its own specification above
Next == NextPdf \/ NextLibrary \/ NextSurface

Spec == Init /\ [][Next]_vars

C2_AtMostOneStampOnCanvas ==
    Len(canvas.objects) <= 1

(***************************************************************************)
(* Default placement (pdf.ts:240-246, 351-357).                            *)
(***************************************************************************)
\* C11: when no placement rectangle is supplied, every rectangle drawn by
\* addStampToPDF and addStampToAllPDFPages on a page of size W x H is
\* {W/2 - 50, H/2 - 50, 100, 100} in page units; the surface dimensions do
\* not enter it (no scaling, no flip).
C11_DefaultRectIsCentred ==
    ~comp.position.defined =>
        \A k \in 1..Len(CompDraws) :
            LET page == PageOfDraw(CompDraws[k]) IN
            CompDraws[k].rect =
                [ x |-> RSub(RDiv(page.width, RInt(2)), RInt(50)),
                  y |-> RSub(RDiv(page.height, RInt(2)), RInt(50)),
                  width |-> RInt(100), height |-> RInt(100) ]

\* addStampToAllPDFPages has returned after drawing the default rectangle on
\* a page whose size is not the surface's
C11_Witness ==
    /\ ~comp.position.defined
    /\ comp.fn = "addStampToAllPDFPages"
    /\ comp.pc = "returned"
    /\ Len(CompDraws) >= 2
    /\ PageOfDraw(CompDraws[2]).width # FABRIC_CANVAS_WIDTH
    /\ CompDraws[2].rect.width = RInt(100)

(***************************************************************************)
(* Object URLs of pdfPageToImage and getPdfPageCount (pdf.ts:24-69,        *)
(* 271-283).                                                               *)
(***************************************************************************)
\* how many times url has been passed to URL.revokeObjectURL
Revocations(url) == Cardinality({ k \in 1..Len(urls.revoked) : urls.revoked[k] = url })

\* the object URLs created so far
CreatedUrls == 1 .. (urls.next - 1)

\* C12: an object URL created by pdfPageToImage or getPdfPageCount is live
\* and unrevoked while the operation runs, and has been revoked exactly once
\* when the operation has completed, on each exit path (success,
\* out-of-range page, load failure, render failure); no URL is revoked twice;
\* when a getPageImageByFile request has finished, every URL created during
\* it has been revoked.
C12_UrlRevokedExactlyOnce ==
    /\ \A url \in CreatedUrls :
          IF url \in urls.live THEN Revocations(url) = 0 ELSE Revocations(url) = 1
    /\ urls.live \subseteq CreatedUrls
    /\ rast.pc \in {"load", "check", "render"} =>
          /\ rast.pdfUrl \in urls.live
          /\ urls.live = {rast.pdfUrl}
    /\ rast.pc = "done" =>
          /\ rast.pdfUrl \in CreatedUrls
          /\ rast.pdfUrl \notin urls.live
          /\ Revocations(rast.pdfUrl) = 1
          /\ rast.logged.kind \in {"none", "LoadFailed", "InvalidPage", "RenderFailed"}
    /\ pcount.pc = "load" => urls.live = {pcount.pdfUrl}
    /\ pcount.pc \in {"returned", "threw"} =>
          /\ pcount.pdfUrl \in CreatedUrls
          /\ pcount.pdfUrl \notin urls.live
          /\ Revocations(pcount.pdfUrl) = 1
    /\ pimg.pc = "done" =>
          /\ urls.live = {}
          /\ \A url \in CreatedUrls : Revocations(url) = 1

\* pdfPageToImage has returned through the out-of-range exit and the one URL
\* it created has been revoked
C12_Witness ==
    /\ rast.pc = "done"
    /\ rast.logged.kind = "InvalidPage"
    /\ urls.next = 2
    /\ urls.live = {}
    /\ urls.revoked = << rast.pdfUrl >>

(***************************************************************************)
(* Properties of the editing surface: addStampToCanvas and                 *)
(* focusActiveStamp (pdf.ts:397-516).                                      *)
(***************************************************************************)
\* the step starts a call of addStampToCanvas (by the component or by
\* focusActiveStamp)
PlaceInvoked ==
    /\ Len(calls') > Len(calls)
    /\ calls'[Len(calls')].fn = "addStampToCanvas"

\* C13: addStampToCanvas invoked while no stamp is selected resolves to false
\* at once and leaves the canvas (objects and active object), stampObject and
\* the started image loads as they were, also when an object is placed.
C13_PlaceWithoutSelectionIsNoOp ==
    [][ (selectedStamp = NoStamp /\ PlaceInvoked) =>
            /\ calls' = Append(calls, Call("addStampToCanvas", "false", 0))
            /\ canvas' = canvas
            /\ stampObject' = stampObject
            /\ loads' = loads ]_vars

\* addStampToCanvas has just resolved to false for want of a selected stamp
\* (no toast, unlike a failed load) while an object is placed and on the canvas
C13_Witness ==
    /\ selectedStamp = NoStamp
    /\ Len(calls) >= 2
    /\ calls[Len(calls)] = Call("addStampToCanvas", "false", 0)
    /\ stampObject # NoObject
    /\ canvas.objects = << stampObject >>
    /\ canvas.active = stampObject.id

\* obj is one of the objects of canvas cv
OnCanvas(cv, obj) == \E i \in 1..Len(cv.objects) : cv.objects[i] = obj

\* the step starts call k, a call of focusActiveStamp
FocusInvoked(k) ==
    /\ k = Len(calls) + 1
    /\ k <= Len(calls')
    /\ calls'[k].fn = "focusActiveStamp"

\* in the step, call k of focusActiveStamp returns value
FocusReturns(k, value) ==
    /\ k \in 1..Len(calls')
    /\ calls'[k].fn = "focusActiveStamp"
    /\ calls'[k].result = value
    /\ k > Len(calls) \/ calls[k].result = "pending"

\* C14: when focusActiveStamp returns true, stampObject references an object
\* that is on the canvas and is its active object. Called with an object
\* placed, it activates that object and returns true. Called with none placed
\* and a stamp selected, it calls addStampToCanvas and waits; it then returns
\* true only if that placement resolved to true. Called with none placed and
\* no stamp selected, it shows an error and returns false, and nothing is
\* added to the canvas.
C14_FocusTrueOnlyWhenPlacedAndActive ==
    [][ \A k \in 1..Len(calls') :
          /\ FocusReturns(k, "true") =>
                /\ stampObject' # NoObject
                /\ OnCanvas(canvas', stampObject')
                /\ canvas'.active = stampObject'.id
                /\ IF k > Len(calls)
                   THEN stampObject # NoObject /\ stampObject' = stampObject
                   ELSE /\ calls[k].awaits \in 1..Len(calls)
                        /\ calls[calls[k].awaits].result = "pending"
                        /\ calls'[calls[k].awaits].result = "true"
          /\ (FocusInvoked(k) /\ stampObject # NoObject) =>
                /\ calls'[k].result = "true"
                /\ canvas' = [canvas EXCEPT !.active = stampObject.id]
                /\ Len(calls') = k
          /\ (FocusInvoked(k) /\ stampObject = NoObject /\ selectedStamp # NoStamp) =>
                /\ calls' = Append(Append(calls, Call("focusActiveStamp", "pending", k + 1)),
                                   Call("addStampToCanvas", "pending", 0))
                /\ k + 1 \in loads'
                /\ canvas' = canvas
          /\ (FocusInvoked(k) /\ stampObject = NoObject /\ selectedStamp = NoStamp) =>
                /\ calls'[k].result = "false"
                /\ calls'[k].toast = "error"
                /\ Len(calls') = k
                /\ canvas' = canvas
                /\ loads' = loads
          /\ ( /\ k <= Len(calls)
               /\ calls[k].fn = "focusActiveStamp"
               /\ calls[k].result = "pending" ) =>
                CASE calls'[calls[k].awaits].result = "pending" -> calls'[k].result = "pending"
                  [] calls'[calls[k].awaits].result = "true" -> calls'[k].result = "true"
                  [] OTHER -> calls'[k].result = "false" ]_vars

\* focusActiveStamp, called with nothing placed, has returned true after the
\* placement it waited for succeeded; the placed object is the active one
C14_Witness ==
    \E k \in 1..Len(calls) :
        /\ calls[k].fn = "focusActiveStamp"
        /\ calls[k].result = "true"
        /\ calls[k].awaits = k + 1
        /\ calls[k + 1].result = "true"
        /\ stampObject # NoObject
        /\ stampObject.id = k + 1
        /\ canvas.active = k + 1

\* C15: every object placed by img.onload, of intrinsic size w x h, has
\* scaleX = scaleY; the factor is min(100/w, 100/h) if w > 100 or h > 100
\* (1/2 for 200 x 50) and 1 otherwise; the displayed width and height are at
\* most 100; left and top centre the displayed size on the 500 x 707.11
\* surface.
C15_UniformScaleAndCentre ==
    \A i \in 1..Len(canvas.objects) :
        LET o == canvas.objects[i]
            hundred == RInt(100)
            big == ~RLeq(o.width, hundred) \/ ~RLeq(o.height, hundred)
            shownWidth == RMul(o.width, o.scaleX)
            shownHeight == RMul(o.height, o.scaleY)
        IN  /\ o.scaleX = o.scaleY
            /\ big => o.scaleX = RMin(RDiv(hundred, o.width), RDiv(hundred, o.height))
            /\ ~big => o.scaleX = RInt(1)
            /\ (o.width = RInt(200) /\ o.height = RInt(50)) => o.scaleX = Norm(1, 2)
            /\ RLeq(shownWidth, hundred)
            /\ RLeq(shownHeight, hundred)
            /\ RMul(RInt(2), o.left) = RSub(FABRIC_CANVAS_WIDTH, shownWidth)
            /\ RMul(RInt(2), o.top) = RSub(FABRIC_CANVAS_HEIGHT, shownHeight)

\* a 200 x 50 image has been placed: scale 1/2 on both axes, shown 100 x 25,
\* at left 200 = (500 - 100) / 2 and top 341.055 = (707.11 - 25) / 2
C15_Witness ==
    /\ stampObject # NoObject
    /\ OnCanvas(canvas, stampObject)
    /\ stampObject.width = RInt(200)
    /\ stampObject.height = RInt(50)
    /\ stampObject.scaleX = Norm(1, 2)
    /\ stampObject.scaleY = Norm(1, 2)
    /\ stampObject.left = RInt(200)
    /\ stampObject.top = Norm(341055, 1000)

(***************************************************************************)
(* Stamp selection: handleStampSelect (styles.ts:121-129).                 *)
(***************************************************************************)
\* the stamps of the library, as a set
LibraryStamps == { stamps[k] : k \in 1..Len(stamps) }

\* C16: the selection is one stamp or none. In every state, clicking the selected stamp yields no selection and clicking
\* any other stamp of the library yields that stamp; a step that changes the
\* selection is one of these two, and it changes neither the canvas (the
\* placed object stays on it) nor the library.
C16_SelectionIsAToggle ==
    /\ [](\A stamp \in LibraryStamps :
             ToggleSelection(selectedStamp, stamp) =
                 IF stamp = selectedStamp THEN NoStamp ELSE stamp)
    /\ [][ selectedStamp' # selectedStamp =>
             /\ \/ selectedStamp # NoStamp /\ selectedStamp' = NoStamp
                \/ selectedStamp' \in LibraryStamps \ {selectedStamp}
             /\ canvas' = canvas
             /\ stamps' = stamps ]_vars

\* the selection has been toggled off while an object is placed: the object
\* is still on the canvas and the library is whole
C16_Witness ==
    /\ selectedStamp = NoStamp
    /\ stampObject # NoObject
    /\ OnCanvas(canvas, stampObject)
    /\ Len(stamps) = 2
    /\ Len(calls) = 1
    /\ calls[1].result = "true"

(***************************************************************************)
(* Result of pdfPageToImage (pdf.ts:15-69).                                *)
(***************************************************************************)
\* C17: pdfPageToImage does not throw from its load, page-check and render
\* steps. It returns a non-empty image of the requested page with error null
\* when the file loads, the page number is in range and the render succeeds,
\* and an empty image with a non-null error otherwise (load failure,
\* out-of-range page, render failure); the result carries the file's name and
\* the requested page number either way, and exactly one of image and error
\* is present.
C17_ResultIsImageOrError ==
    /\ rast.pc \in {"idle", "load", "check", "render", "done"}
    /\ rast.pc # "done" => rast.result = NoRastResult
    /\ rast.pc = "done" =>
          /\ rast.result.fileName = rast.file.name
          /\ rast.result.pageNumber = rast.pageNumber
          /\ rast.result.image.empty <=> ~rast.result.error.null
          /\ IF rast.logged = NoCause
             THEN /\ ~rast.result.image.empty
                  /\ rast.result.error.null
                  /\ rast.result.image = Image(rast.file, rast.pageNumber)
                  /\ rast.file.wellFormed
                  /\ InRange(rast.pageNumber, rast.file)
                  /\ rast.trace = << "load", "pagecheck", "render" >>
             ELSE /\ rast.result.image = EmptyImage
                  /\ ~rast.result.error.null
                  /\ rast.result.error.page = rast.pageNumber
                  /\ rast.logged.kind \in {"LoadFailed", "InvalidPage", "RenderFailed"}
          /\ ~rast.file.wellFormed => rast.logged.kind = "LoadFailed"
          /\ (rast.file.wellFormed /\ ~InRange(rast.pageNumber, rast.file))
                => rast.logged.kind = "InvalidPage"

\* the render of a page in range has failed: pdfPageToImage has returned an
\* empty image and an error, with the file name and the page number
C17_Witness ==
    /\ rast.pc = "done"
    /\ rast.logged.kind = "RenderFailed"
    /\ rast.result.image.empty
    /\ ~rast.result.error.null
    /\ rast.result.fileName = "b.pdf"
    /\ rast.result.pageNumber = 2

\* the step changes stampObject or the objects on the canvas
SurfaceWritten == stampObject' # stampObject \/ canvas'.objects # canvas.objects

\* in the step, the image load of call id completes and the call resolves to
\* value
LoadCompletes(id, value) ==
    /\ id \in loads
    /\ id \notin loads'
    /\ calls'[id].result = value

\* C18 as stated: stampObject and the canvas contents change only in a step
\* in which an image load completes successfully; in particular
\* addStampToCanvas writes neither before its image has loaded.
C18_NoWriteBeforeDecode ==
    [][ SurfaceWritten => \E id \in loads : LoadCompletes(id, "true") ]_vars

\* C18 amended: stampObject is set to a new object, and an object is added to
\* the canvas, only in the step in which the image load of the call completes
\* successfully. The only earlier write is at the call itself: an object
\* placed before is removed from the canvas and stampObject is set to null. A
\* load that fails writes nothing (and does not restore what the call
\* removed).
C18_SetOnlyAfterDecode ==
    [][ /\ SurfaceWritten =>
              \/ \E id \in loads :
                    /\ LoadCompletes(id, "true")
                    /\ stampObject'.id = id
                    /\ canvas'.objects = Append(canvas.objects, stampObject')
              \/ /\ PlaceInvoked
                 /\ selectedStamp # NoStamp
                 /\ stampObject # NoObject
                 /\ stampObject' = NoObject
                 /\ canvas'.objects =
                        SelectSeq(canvas.objects, LAMBDA o : o # stampObject)
                 /\ Len(canvas'.objects) = Len(canvas.objects) - 1
        /\ \A id \in loads :
              LoadCompletes(id, "false") =>
                  /\ stampObject' = stampObject
                  /\ canvas' = canvas ]_vars

\* a second placement has removed the first object at its call and set
\* stampObject to its own object when its image had loaded
C18_Witness ==
    /\ Len(calls) = 2
    /\ calls[1] = Toast(Call("addStampToCanvas", "true", 0), "success")
    /\ calls[2] = Toast(Call("addStampToCanvas", "true", 0), "success")
    /\ stampObject # NoObject
    /\ stampObject.id = 2
    /\ canvas.objects = << stampObject >>

\* C19: when the image load (or the construction of the fabric object) of an
\* addStampToCanvas call fails, the call resolves to false, no object of that
\* call is on the canvas, stampObject is null and the canvas holds no stamp
\* object (an object placed before the call was removed at the call and is
\* not restored).
C19_FailedPlacementLeavesNothing ==
    [][ \A id \in loads :
          LoadCompletes(id, "false") =>
              /\ \A i \in 1..Len(canvas'.objects) : canvas'.objects[i].id # id
              /\ stampObject' = NoObject
              /\ canvas'.objects = << >> ]_vars

\* C20: whenever stampObject is not null, the object it references is on the
\* canvas; in particular it is never an object that addStampToCanvas has
\* removed from the canvas.
C20_PlacedObjectIsOnCanvas ==
    stampObject # NoObject =>
        /\ OnCanvas(canvas, stampObject)
        /\ \E k \in 1..Len(calls) :
              /\ calls[k].fn = "addStampToCanvas"
              /\ calls[k].result = "true"
              /\ stampObject.id = k

\* a second placement has removed the first object and placed its own, and
\* focusActiveStamp has then activated the object stampObject references
C20_Witness ==
    /\ Len(calls) = 3
    /\ calls[1].result = "true"
    /\ calls[2].result = "true"
    /\ calls[3] = Toast(Call("focusActiveStamp", "true", 0), "success")
    /\ stampObject.id = 2
    /\ canvas = [objects |-> << stampObject >>, active |-> 2]

(***************************************************************************)
(* Clamping of the recorded placement in getPageImageByFile                *)
(* (pdf.ts:129-138, 228-240).                                              *)
(***************************************************************************)
\* the request found a recorded placement for its page and the stamp of it,
\* so that it has called addStampToPDF
PimgComposites ==
    /\ pimg.pc # "idle"
    /\ PimgPlacement # 0
    /\ PimgStamp # 0

\* C21: in getPageImageByFile the rectangle handed to addStampToPDF is the
\* recorded placement with x and y replaced by max(0, x) and max(0, y), width
\* and height unchanged; every rectangle then drawn on the page, and shown in
\* the returned image, has page-space x >= 0 and y <= pageHeight - drawn
\* height, for every recorded placement.
C21_PlacementClampedOnBothAxes ==
    PimgComposites =>
        LET recorded == pimg.pageStamps[PimgPlacement].position IN
        /\ comp.fn = "addStampToPDF"
        /\ comp.position.defined
        /\ comp.position.x = (IF recorded.x < 0 THEN 0 ELSE recorded.x)
        /\ comp.position.y = (IF recorded.y < 0 THEN 0 ELSE recorded.y)
        /\ comp.position.width = recorded.width
        /\ comp.position.height = recorded.height
        /\ \A k \in 1..Len(CompDraws) :
              LET rect == CompDraws[k].rect
                  page == PageOfDraw(CompDraws[k])
              IN  /\ ~RIsNeg(rect.x)
                  /\ RLeq(rect.y, RSub(page.height, rect.height))
        /\ \A k \in 1..Len(pimg.result.image.draws) :
              LET rect == pimg.result.image.draws[k].rect IN
              /\ ~RIsNeg(rect.x)
              /\ RLeq(rect.y, RSub(pimg.file.pages[pimg.pageNumber].height, rect.height))

\* a placement recorded left of and above the surface has been drawn at the
\* left and top edge of an A4 or Letter page, and the returned image shows it
C21_Witness ==
    /\ PimgComposites
    /\ pimg.pc = "done"
    /\ pimg.pageStamps[PimgPlacement].position.x < 0
    /\ pimg.pageStamps[PimgPlacement].position.y < 0
    /\ comp.pc = "returned"
    /\ Len(pimg.result.image.draws) = 1
    /\ pimg.result.image.draws[1].rect.x = RInt(0)
    /\ pimg.file.pages[pimg.pageNumber].width # FABRIC_CANVAS_WIDTH
    /\ pimg.result.image.draws[1].rect.y =
           RSub(pimg.file.pages[pimg.pageNumber].height,
                pimg.result.image.draws[1].rect.height)
=============================================================================
